---- MODULE Spec2Model ----
(***************************************************************************)
(* Model of the Evaluation Session Controller of the AI script grader      *)
(* front end (src/src/App.tsx): the React state of the App component, its  *)
(* three handlers, the effect that owns the EventSource subscription, and  *)
(* the environment they talk to (upload and download requests in flight,   *)
(* the EventSource objects and their readyState).                          *)
(*                                                                         *)
(* One action is one task of the browser's event loop: a handler runs to   *)
(* its end (or to its await), React commits the batched state updates and  *)
(* runs the effect whose dependencies changed.                             *)
(*                                                                         *)
(* JavaScript values: null and undefined are the reserved strings NULL and *)
(* UNDEFINED; a File object is named by its file name and FileType gives   *)
(* its media type; a text payload is a sequence of characters.             *)
(***************************************************************************)
EXTENDS Integers, Sequences, FiniteSets, TLC

VARIABLES
    answerScript,   \* useState<File | null>
    questionPaper,  \* useState<File | null>
    evaluationId,   \* useState<string | null>
    isLoading,      \* useState<boolean>
    error,          \* useState<string | null>
    uploadStatus,   \* useState<string>
    logs,           \* useState<string[]>
    isEvaluating,   \* useState<boolean>
    sources,        \* every EventSource constructed so far: [job, readyState]
    eventSource,    \* the `eventSource` of the latest effect run (0 = null)
    uploads,        \* upload requests awaiting their response (their path)
    downloads,      \* download requests awaiting their response (their id)
    saved,          \* file names handed to the browser's save action
    last,           \* the task that ran last: its name and what it was given
    delivered       \* event.data of the messages dispatched since the last
                    \* accepted upload (kept under SpecStream only)

vars == <<answerScript, questionPaper, evaluationId, isLoading, error,
          uploadStatus, logs, isEvaluating, sources, eventSource,
          uploads, downloads, saved, last, delivered>>

----------------------------------------------------------------------------
(* Bounds *)

MaxSources == 2      \* EventSources constructed, counting the uploads in flight
MaxDownloads == 1    \* download requests in flight
MaxLogs == 2         \* lines kept in the Log Stream
MaxDelivered == 4    \* messages dispatched after one upload (SpecStream)

----------------------------------------------------------------------------
(* JavaScript values *)

NULL == "null"
UNDEFINED == "undefined"

\* truthiness of string | null | undefined
Truthy(v) == v # NULL /\ v # UNDEFINED /\ v # ""

\* EventSource.CONNECTING, EventSource.OPEN, EventSource.CLOSED
CONNECTING == 0
OPEN == 1
CLOSED == 2

\* the files the user can pick, and File.type of each
Files == {"script.pdf", "paper.pdf", "photo.png", "scan.PDF"}

FileType(file) ==
    CASE file = "script.pdf" -> "application/pdf"
      [] file = "paper.pdf"  -> "application/pdf"
      [] file = "photo.png"  -> "image/png"
      [] file = "scan.PDF"   -> "application/x-pdf"

\* e.target.files?.[0]: a file, or undefined when the dialog was cancelled
Selections == Files \cup {UNDEFINED}

SlotTypes == {"answer", "question"}

----------------------------------------------------------------------------
(* Text payloads and String.prototype.trim *)

SP == " "
NL == "\n"

IsWhiteSpace(c) == c \in {SP, NL}

RECURSIVE TrimStart(_)
TrimStart(s) ==
    IF s = <<>> THEN <<>>
    ELSE IF IsWhiteSpace(Head(s)) THEN TrimStart(Tail(s)) ELSE s

RECURSIVE TrimEnd(_)
TrimEnd(s) ==
    IF s = <<>> THEN <<>>
    ELSE IF IsWhiteSpace(s[Len(s)]) THEN TrimEnd(SubSeq(s, 1, Len(s) - 1))
    ELSE s

Trim(s) == TrimEnd(TrimStart(s))

\* event.data of the messages the server can send
Payloads == {<<>>, <<SP, SP>>, <<NL>>, <<"l", "1">>, <<SP, "l", "2", NL>>}

----------------------------------------------------------------------------
(* Messages shown to the user *)

InvalidFileMessage == "Please upload a valid PDF file"
BothFilesMessage == "Please upload both answer script and question paper"
ServerUnavailableMessage ==
    "Server is currently unavailable. Please try again in a few moments."
ConnectionLostMessage ==
    "Connection to server lost. Please refresh the page and try again."
UploadingStatus == "Uploading files..."
InProgressStatus == "Evaluation in progress..."
CompletedStatus == "Evaluation completed"

\* the path the upload request is sent to
UploadEndpoint == "/upload-pdfs/"

----------------------------------------------------------------------------
(* The effect that owns the subscription *)

\* EventSource.close()
Close(srcs, i) ==
    IF i = 0 THEN srcs ELSE [srcs EXCEPT ![i].readyState = CLOSED]

\* the effect with its cleanup function left out
SSEEffectNoCleanup(srcs, evId, isEv) ==
    IF evId = evaluationId /\ isEv = isEvaluating
    THEN /\ sources' = srcs
         /\ eventSource' = eventSource
    ELSE IF Truthy(evId) /\ isEv
         THEN /\ sources' = Append(srcs, [job |-> evId,
                                          readyState |-> CONNECTING])
              /\ eventSource' = Len(srcs) + 1
         ELSE /\ sources' = srcs
              /\ eventSource' = 0

\* the effect testing only evaluationId before it subscribes
SSEEffectIgnoresEvaluating(srcs, evId, isEv) ==
    IF evId = evaluationId /\ isEv = isEvaluating
    THEN /\ sources' = srcs
         /\ eventSource' = eventSource
    ELSE LET cleaned == Close(srcs, eventSource) IN
         IF Truthy(evId)
         THEN /\ sources' = Append(cleaned, [job |-> evId,
                                             readyState |-> CONNECTING])
              /\ eventSource' = Len(cleaned) + 1
         ELSE /\ sources' = cleaned
              /\ eventSource' = 0

\* useEffect(..., [evaluationId, isEvaluating]) at the commit that makes the
\* state (evId, isEv): when a dependency changed, the previous run's cleanup
\* closes its eventSource, then a new one is constructed if both are truthy
SSEEffect(srcs, evId, isEv) ==
    IF evId = evaluationId /\ isEv = isEvaluating
    THEN /\ sources' = srcs
         /\ eventSource' = eventSource
    ELSE LET cleaned == Close(srcs, eventSource) IN
         IF Truthy(evId) /\ isEv
         THEN /\ sources' = Append(cleaned, [job |-> evId,
                                             readyState |-> CONNECTING])
              /\ eventSource' = Len(cleaned) + 1
         ELSE /\ sources' = cleaned
              /\ eventSource' = 0

----------------------------------------------------------------------------
(* Initial state: the component as mounted *)

Init ==
    /\ answerScript = NULL
    /\ questionPaper = NULL
    /\ evaluationId = NULL
    /\ isLoading = FALSE
    /\ error = NULL
    /\ uploadStatus = ""
    /\ logs = <<>>
    /\ isEvaluating = FALSE
    /\ sources = <<>>
    /\ eventSource = 0
    /\ uploads = <<>>
    /\ downloads = <<>>
    /\ saved = {}
    /\ last = [op |-> "mount", arg |-> NULL]
    /\ delivered = <<>>

----------------------------------------------------------------------------
(* handleFileChange *)

\* handleFileChange without the media type test
handleFileChangeAnyType(file, type) ==
    /\ IF file # UNDEFINED
       THEN /\ IF type = "answer"
               THEN answerScript' = file /\ UNCHANGED questionPaper
               ELSE questionPaper' = file /\ UNCHANGED answerScript
            /\ error' = NULL
       ELSE /\ error' = InvalidFileMessage
            /\ UNCHANGED <<answerScript, questionPaper>>
    /\ last' = [op |-> "handleFileChange", arg |-> <<file, type>>]
    /\ UNCHANGED <<evaluationId, isLoading, uploadStatus, logs, isEvaluating,
                   sources, eventSource, uploads, downloads, saved>>

\* handleFileChange with the two setters swapped
handleFileChangeWrongSlot(file, type) ==
    /\ IF file # UNDEFINED /\ FileType(file) = "application/pdf"
       THEN /\ IF type = "answer"
               THEN questionPaper' = file /\ UNCHANGED answerScript
               ELSE answerScript' = file /\ UNCHANGED questionPaper
            /\ error' = NULL
       ELSE /\ error' = InvalidFileMessage
            /\ UNCHANGED <<answerScript, questionPaper>>
    /\ last' = [op |-> "handleFileChange", arg |-> <<file, type>>]
    /\ UNCHANGED <<evaluationId, isLoading, uploadStatus, logs, isEvaluating,
                   sources, eventSource, uploads, downloads, saved>>

handleFileChange(file, type) ==
    /\ IF file # UNDEFINED /\ FileType(file) = "application/pdf"
       THEN /\ IF type = "answer"
               THEN answerScript' = file /\ UNCHANGED questionPaper
               ELSE questionPaper' = file /\ UNCHANGED answerScript
            /\ error' = NULL
       ELSE /\ error' = InvalidFileMessage
            /\ UNCHANGED <<answerScript, questionPaper>>
    /\ last' = [op |-> "handleFileChange", arg |-> <<file, type>>]
    /\ UNCHANGED <<evaluationId, isLoading, uploadStatus, logs, isEvaluating,
                   sources, eventSource, uploads, downloads, saved>>

----------------------------------------------------------------------------
(* handleUpload: up to the await of fetch *)

\* handleUpload without its early return
handleUploadNoGuard ==
    /\ isLoading' = TRUE
    /\ error' = NULL
    /\ uploadStatus' = UploadingStatus
    /\ logs' = <<>>
    /\ isEvaluating' = FALSE
    /\ uploads' = Append(uploads, UploadEndpoint)
    /\ SSEEffect(sources, evaluationId, FALSE)
    /\ last' = [op |-> "handleUpload", arg |-> <<TRUE, eventSource>>]
    /\ UNCHANGED <<answerScript, questionPaper, evaluationId,
                   downloads, saved>>

\* handleUpload without setIsEvaluating(false)
handleUploadKeepsEvaluating ==
    IF answerScript = NULL \/ questionPaper = NULL
    THEN /\ error' = BothFilesMessage
         /\ last' = [op |-> "handleUpload", arg |-> <<FALSE, eventSource>>]
         /\ UNCHANGED <<answerScript, questionPaper, evaluationId, isLoading,
                        uploadStatus, logs, isEvaluating, sources,
                        eventSource, uploads, downloads, saved>>
    ELSE /\ isLoading' = TRUE
         /\ error' = NULL
         /\ uploadStatus' = UploadingStatus
         /\ logs' = <<>>
         /\ uploads' = Append(uploads, UploadEndpoint)
         /\ last' = [op |-> "handleUpload", arg |-> <<TRUE, eventSource>>]
         /\ UNCHANGED <<answerScript, questionPaper, evaluationId,
                        isEvaluating, sources, eventSource, downloads, saved>>

\* handleUpload without setLogs([])
handleUploadKeepsLogs ==
    IF answerScript = NULL \/ questionPaper = NULL
    THEN /\ error' = BothFilesMessage
         /\ last' = [op |-> "handleUpload", arg |-> <<FALSE, eventSource>>]
         /\ UNCHANGED <<answerScript, questionPaper, evaluationId, isLoading,
                        uploadStatus, logs, isEvaluating, sources,
                        eventSource, uploads, downloads, saved>>
    ELSE /\ isLoading' = TRUE
         /\ error' = NULL
         /\ uploadStatus' = UploadingStatus
         /\ isEvaluating' = FALSE
         /\ uploads' = Append(uploads, UploadEndpoint)
         /\ SSEEffect(sources, evaluationId, FALSE)
         /\ last' = [op |-> "handleUpload", arg |-> <<TRUE, eventSource>>]
         /\ UNCHANGED <<answerScript, questionPaper, evaluationId, logs,
                        downloads, saved>>

handleUpload ==
    IF answerScript = NULL \/ questionPaper = NULL
    THEN /\ error' = BothFilesMessage
         /\ last' = [op |-> "handleUpload", arg |-> <<FALSE, eventSource>>]
         /\ UNCHANGED <<answerScript, questionPaper, evaluationId, isLoading,
                        uploadStatus, logs, isEvaluating, sources,
                        eventSource, uploads, downloads, saved>>
    ELSE /\ isLoading' = TRUE
         /\ error' = NULL
         /\ uploadStatus' = UploadingStatus
         /\ logs' = <<>>
         /\ isEvaluating' = FALSE
         /\ uploads' = Append(uploads, UploadEndpoint)
         /\ SSEEffect(sources, evaluationId, FALSE)
         /\ last' = [op |-> "handleUpload", arg |-> <<TRUE, eventSource>>]
         /\ UNCHANGED <<answerScript, questionPaper, evaluationId,
                        downloads, saved>>

----------------------------------------------------------------------------
(* The responses the upload endpoint can give *)

Statuses == {200, 201, 400, 502}

\* Response.ok
Ok(status) == status >= 200 /\ status <= 299

JobIds == {"abc123", "xyz"}

\* data.message of a body that carries one
ServerMessage == "Invalid PDF"

\* the body: not JSON at all, a JSON object without evaluation_id (with a
\* message, an empty one or none), or the documented object with a message
\* and an evaluation_id (possibly empty)
Bodies ==
    {[json |-> FALSE, message |-> UNDEFINED, evaluation_id |-> UNDEFINED]}
    \cup [json : {TRUE},
          message : {UNDEFINED, "", ServerMessage},
          evaluation_id : {UNDEFINED}]
    \cup [json : {TRUE},
          message : {ServerMessage},
          evaluation_id : {""} \cup JobIds]

\* a response, or the rejection of fetch (no response at all)
Responses ==
    [rejected : {FALSE}, status : Statuses, body : Bodies]
    \cup {[rejected |-> TRUE, status |-> 0,
           body |-> CHOOSE b \in Bodies : ~b.json]}

FetchFailedMessage == "Failed to fetch"
JsonParseMessage == "Unexpected token < in JSON at position 0"

RemoveAt(s, k) == SubSeq(s, 1, k - 1) \o SubSeq(s, k + 1, Len(s))

\* the try block reading the body before it tests for 502
UploadThrowsParsesFirst(r) ==
    IF r.rejected THEN FetchFailedMessage
    ELSE IF ~r.body.json THEN JsonParseMessage
    ELSE IF r.status = 502 THEN ServerUnavailableMessage
    ELSE IF ~Ok(r.status)
         THEN IF Truthy(r.body.message) THEN r.body.message
              ELSE "Upload failed (Status: " \o ToString(r.status) \o ")"
    ELSE NULL

\* the Error the try block of handleUpload throws for response r, or NULL
UploadThrows(r) ==
    IF r.rejected THEN FetchFailedMessage
    ELSE IF r.status = 502 THEN ServerUnavailableMessage
    ELSE IF ~r.body.json THEN JsonParseMessage
    ELSE IF ~Ok(r.status)
         THEN IF Truthy(r.body.message) THEN r.body.message
              ELSE "Upload failed (Status: " \o ToString(r.status) \o ")"
    ELSE NULL

\* the continuation without setEvaluationId
uploadResponseKeepsId(k, r) ==
    /\ k \in 1..Len(uploads)
    /\ uploads' = RemoveAt(uploads, k)
    /\ IF UploadThrows(r) = NULL
       THEN /\ uploadStatus' = InProgressStatus
            /\ isEvaluating' = TRUE
            /\ SSEEffect(sources, evaluationId, TRUE)
            /\ UNCHANGED <<error, evaluationId>>
       ELSE /\ error' = UploadThrows(r)
            /\ uploadStatus' = ""
            /\ UNCHANGED <<evaluationId, isEvaluating, sources, eventSource>>
    /\ isLoading' = FALSE
    /\ last' = [op |-> "uploadResponse", arg |-> r]
    /\ UNCHANGED <<answerScript, questionPaper, logs, downloads, saved>>

\* the continuation with setIsLoading(false) at the end of the try block
\* instead of in finally
uploadResponseStaysLoading(k, r) ==
    /\ k \in 1..Len(uploads)
    /\ uploads' = RemoveAt(uploads, k)
    /\ IF UploadThrows(r) = NULL
       THEN /\ evaluationId' = r.body.evaluation_id
            /\ uploadStatus' = InProgressStatus
            /\ isEvaluating' = TRUE
            /\ isLoading' = FALSE
            /\ SSEEffect(sources, r.body.evaluation_id, TRUE)
            /\ UNCHANGED error
       ELSE /\ error' = UploadThrows(r)
            /\ uploadStatus' = ""
            /\ UNCHANGED <<evaluationId, isEvaluating, isLoading, sources,
                           eventSource>>
    /\ last' = [op |-> "uploadResponse", arg |-> r]
    /\ UNCHANGED <<answerScript, questionPaper, logs, downloads, saved>>

\* the continuation without setUploadStatus("") in its catch block
uploadResponseKeepsStatus(k, r) ==
    /\ k \in 1..Len(uploads)
    /\ uploads' = RemoveAt(uploads, k)
    /\ IF UploadThrows(r) = NULL
       THEN /\ evaluationId' = r.body.evaluation_id
            /\ uploadStatus' = InProgressStatus
            /\ isEvaluating' = TRUE
            /\ SSEEffect(sources, r.body.evaluation_id, TRUE)
            /\ UNCHANGED error
       ELSE /\ error' = UploadThrows(r)
            /\ UNCHANGED <<uploadStatus, evaluationId, isEvaluating, sources,
                           eventSource>>
    /\ isLoading' = FALSE
    /\ last' = [op |-> "uploadResponse", arg |-> r]
    /\ UNCHANGED <<answerScript, questionPaper, logs, downloads, saved>>

\* handleUpload from the await of fetch to its end, for request k
uploadResponse(k, r) ==
    /\ k \in 1..Len(uploads)
    /\ uploads' = RemoveAt(uploads, k)
    /\ IF UploadThrows(r) = NULL
       THEN /\ evaluationId' = r.body.evaluation_id
            /\ uploadStatus' = InProgressStatus
            /\ isEvaluating' = TRUE
            /\ SSEEffect(sources, r.body.evaluation_id, TRUE)
            /\ UNCHANGED error
       ELSE /\ error' = UploadThrows(r)
            /\ uploadStatus' = ""
            /\ UNCHANGED <<evaluationId, isEvaluating, sources, eventSource>>
    /\ isLoading' = FALSE
    /\ last' = [op |-> "uploadResponse", arg |-> r]
    /\ UNCHANGED <<answerScript, questionPaper, logs, downloads, saved>>

----------------------------------------------------------------------------
(* handleDownload *)

\* handleDownload without its early return
handleDownloadNoGuard ==
    /\ downloads' = Append(downloads, evaluationId)
    /\ last' = [op |-> "handleDownload", arg |-> Truthy(evaluationId)]
    /\ UNCHANGED <<answerScript, questionPaper, evaluationId, isLoading,
                   error, uploadStatus, logs, isEvaluating, sources,
                   eventSource, uploads, saved>>

\* up to the await of fetch; the closure keeps the evaluationId it rendered
handleDownload ==
    /\ IF ~Truthy(evaluationId)
       THEN UNCHANGED downloads
       ELSE downloads' = Append(downloads, evaluationId)
    /\ last' = [op |-> "handleDownload", arg |-> Truthy(evaluationId)]
    /\ UNCHANGED <<answerScript, questionPaper, evaluationId, isLoading,
                   error, uploadStatus, logs, isEvaluating, sources,
                   eventSource, uploads, saved>>

DownloadStatuses == {200, 404, 502}

DownloadResponses ==
    [rejected : {FALSE}, status : DownloadStatuses]
    \cup {[rejected |-> TRUE, status |-> 0]}

\* the try block of handleDownload without the 502 test
DownloadThrowsNo502(r) ==
    IF r.rejected THEN FetchFailedMessage
    ELSE IF ~Ok(r.status)
         THEN "Failed to download PDF (Status: " \o ToString(r.status) \o ")"
    ELSE NULL

DownloadThrows(r) ==
    IF r.rejected THEN FetchFailedMessage
    ELSE IF r.status = 502 THEN ServerUnavailableMessage
    ELSE IF ~Ok(r.status)
         THEN "Failed to download PDF (Status: " \o ToString(r.status) \o ")"
    ELSE NULL

\* a.download
FileName(id) == "evaluated_script_" \o id \o ".pdf"

\* the continuation naming the file after the evaluationId held when the
\* response arrives
downloadResponseReadsState(k, r) ==
    /\ k \in 1..Len(downloads)
    /\ downloads' = RemoveAt(downloads, k)
    /\ IF DownloadThrows(r) = NULL
       THEN /\ saved' = saved \cup {FileName(evaluationId)}
            /\ UNCHANGED error
       ELSE /\ error' = DownloadThrows(r)
            /\ UNCHANGED saved
    /\ last' = [op |-> "downloadResponse", arg |-> <<downloads[k], r>>]
    /\ UNCHANGED <<answerScript, questionPaper, evaluationId, isLoading,
                   uploadStatus, logs, isEvaluating, sources, eventSource,
                   uploads>>

\* handleDownload from the await of fetch to its end, for request k
downloadResponse(k, r) ==
    /\ k \in 1..Len(downloads)
    /\ downloads' = RemoveAt(downloads, k)
    /\ IF DownloadThrows(r) = NULL
       THEN /\ saved' = saved \cup {FileName(downloads[k])}
            /\ UNCHANGED error
       ELSE /\ error' = DownloadThrows(r)
            /\ UNCHANGED saved
    /\ last' = [op |-> "downloadResponse", arg |-> <<downloads[k], r>>]
    /\ UNCHANGED <<answerScript, questionPaper, evaluationId, isLoading,
                   uploadStatus, logs, isEvaluating, sources, eventSource,
                   uploads>>

----------------------------------------------------------------------------
(* The EventSource: transport and handlers *)

\* the connection is established; the component sets no onopen
connected(i) ==
    /\ i \in 1..Len(sources)
    /\ sources[i].readyState = CONNECTING
    /\ sources' = [sources EXCEPT ![i].readyState = OPEN]
    /\ last' = [op |-> "connected", arg |-> i]
    /\ UNCHANGED <<answerScript, questionPaper, evaluationId, isLoading,
                   error, uploadStatus, logs, isEvaluating, eventSource,
                   uploads, downloads, saved>>

\* onmessage appending the trimmed text
onmessageStoresTrimmed(i, data) ==
    /\ i \in 1..Len(sources)
    /\ sources[i].readyState = OPEN
    /\ IF Trim(data) # <<>>
       THEN logs' = Append(logs, Trim(data))
       ELSE UNCHANGED logs
    /\ last' = [op |-> "onmessage", arg |-> <<i, data>>]
    /\ UNCHANGED <<answerScript, questionPaper, evaluationId, isLoading,
                   error, uploadStatus, isEvaluating, sources, eventSource,
                   uploads, downloads, saved>>

\* eventSource.onmessage of source i for an event with event.data = data
onmessage(i, data) ==
    /\ i \in 1..Len(sources)
    /\ sources[i].readyState = OPEN
    /\ IF Trim(data) # <<>>
       THEN logs' = Append(logs, data)
       ELSE UNCHANGED logs
    /\ last' = [op |-> "onmessage", arg |-> <<i, data>>]
    /\ UNCHANGED <<answerScript, questionPaper, evaluationId, isLoading,
                   error, uploadStatus, isEvaluating, sources, eventSource,
                   uploads, downloads, saved>>

\* onerror without setIsEvaluating(false)
onerrorStaysEvaluating(i, ready) ==
    /\ i \in 1..Len(sources)
    /\ sources[i].readyState # CLOSED
    /\ LET signalled == [sources EXCEPT ![i].readyState = ready]
           closed == Close(signalled, i)
       IN /\ uploadStatus' = CompletedStatus
          /\ IF closed[i].readyState = CLOSED
             THEN error' = ConnectionLostMessage
             ELSE UNCHANGED error
          /\ sources' = closed
    /\ last' = [op |-> "onerror", arg |-> <<i, ready>>]
    /\ UNCHANGED <<answerScript, questionPaper, evaluationId, isLoading,
                   logs, uploads, downloads, saved, isEvaluating,
                   eventSource>>

\* onerror that only reports: no close(), no setIsEvaluating(false), so the
\* transport is left to reconnect
onerrorLeavesOpen(i, ready) ==
    /\ i \in 1..Len(sources)
    /\ sources[i].readyState # CLOSED
    /\ LET signalled == [sources EXCEPT ![i].readyState = ready]
       IN /\ uploadStatus' = CompletedStatus
          /\ IF signalled[i].readyState = CLOSED
             THEN error' = ConnectionLostMessage
             ELSE UNCHANGED error
          /\ sources' = signalled
    /\ last' = [op |-> "onerror", arg |-> <<i, ready>>]
    /\ UNCHANGED <<answerScript, questionPaper, evaluationId, isLoading,
                   logs, uploads, downloads, saved, isEvaluating,
                   eventSource>>

\* onerror that also forgets the job (setEvaluationId(null))
onerrorForgetsJob(i, ready) ==
    /\ i \in 1..Len(sources)
    /\ sources[i].readyState # CLOSED
    /\ LET signalled == [sources EXCEPT ![i].readyState = ready]
           closed == Close(signalled, i)
       IN /\ isEvaluating' = FALSE
          /\ evaluationId' = NULL
          /\ uploadStatus' = CompletedStatus
          /\ IF closed[i].readyState = CLOSED
             THEN error' = ConnectionLostMessage
             ELSE UNCHANGED error
          /\ SSEEffect(closed, NULL, FALSE)
    /\ last' = [op |-> "onerror", arg |-> <<i, ready>>]
    /\ UNCHANGED <<answerScript, questionPaper, isLoading, logs, uploads,
                   downloads, saved>>

\* The transport signals an error on source i: it has set readyState to
\* `ready` (CONNECTING when it will reconnect, CLOSED when it gave up) and
\* dispatches the error event, whose target is source i; eventSource.onerror
\* of source i runs.
onerror(i, ready) ==
    /\ i \in 1..Len(sources)
    /\ sources[i].readyState # CLOSED
    /\ LET signalled == [sources EXCEPT ![i].readyState = ready]
           closed == Close(signalled, i)
       IN /\ isEvaluating' = FALSE
          /\ uploadStatus' = CompletedStatus
          /\ IF closed[i].readyState = CLOSED
             THEN error' = ConnectionLostMessage
             ELSE UNCHANGED error
          /\ SSEEffect(closed, evaluationId, FALSE)
    /\ last' = [op |-> "onerror", arg |-> <<i, ready>>]
    /\ UNCHANGED <<answerScript, questionPaper, evaluationId, isLoading,
                   logs, uploads, downloads, saved>>

----------------------------------------------------------------------------
(* What the rendered page lets the user do *)

\* disabled={isLoading || isEvaluating} of the two file inputs
FileInputEnabled == ~(isLoading \/ isEvaluating)

\* the upload button without isLoading in its disabled expression
UploadButtonIgnoresLoading ==
    ~(isEvaluating \/ answerScript = NULL \/ questionPaper = NULL)

\* disabled={isLoading || isEvaluating || !answerScript || !questionPaper}
UploadButtonEnabled ==
    ~(isLoading \/ isEvaluating \/ answerScript = NULL
      \/ questionPaper = NULL)

\* the download button rendered whenever an id is held
DownloadButtonWhileEvaluating == Truthy(evaluationId) /\ ~isLoading

\* {evaluationId && !isEvaluating && <button disabled={isLoading}>}
DownloadButtonEnabled == Truthy(evaluationId) /\ ~isEvaluating /\ ~isLoading

ChangeFile ==
    /\ FileInputEnabled
    /\ \E file \in Selections, type \in SlotTypes : handleFileChange(file, type)
    /\ UNCHANGED delivered

ClickUpload ==
    /\ UploadButtonEnabled
    /\ Len(sources) + Len(uploads) < MaxSources
    /\ handleUpload
    /\ UNCHANGED delivered

ClickDownload ==
    /\ DownloadButtonEnabled
    /\ Len(downloads) < MaxDownloads
    /\ handleDownload
    /\ UNCHANGED delivered

UploadResponds ==
    /\ \E k \in 1..Len(uploads), r \in Responses : uploadResponse(k, r)
    /\ UNCHANGED delivered

DownloadResponds ==
    /\ \E k \in 1..Len(downloads), r \in DownloadResponses :
           downloadResponse(k, r)
    /\ UNCHANGED delivered

StreamConnects ==
    /\ \E i \in 1..Len(sources) : connected(i)
    /\ UNCHANGED delivered

StreamMessage ==
    /\ \E i \in 1..Len(sources), data \in Payloads :
           /\ Trim(data) # <<>> => Len(logs) < MaxLogs
           /\ onmessage(i, data)
    /\ UNCHANGED delivered

StreamError ==
    /\ \E i \in 1..Len(sources), ready \in {CONNECTING, CLOSED} :
           onerror(i, ready)
    /\ UNCHANGED delivered

\* the page as the user drives it
Next ==
    \/ ChangeFile
    \/ ClickUpload
    \/ UploadResponds
    \/ ClickDownload
    \/ DownloadResponds
    \/ StreamConnects
    \/ StreamMessage
    \/ StreamError

Spec == Init /\ [][Next]_vars

----------------------------------------------------------------------------
(* The handlers called in any state, whatever the page has disabled *)

\* Which PDF a slot holds is read by handleFileChange alone, whose claims are
\* checked under Spec with every file: here one PDF stands for all of them.
OpsSelections == Selections \ {"paper.pdf"}

CallFileChange ==
    /\ \E file \in OpsSelections, type \in SlotTypes :
           handleFileChange(file, type)
    /\ UNCHANGED delivered

CallUpload ==
    /\ (answerScript # NULL /\ questionPaper # NULL)
           => Len(sources) + Len(uploads) < MaxSources
    /\ handleUpload
    /\ UNCHANGED delivered

CallDownload ==
    /\ Truthy(evaluationId) => Len(downloads) < MaxDownloads
    /\ handleDownload
    /\ UNCHANGED delivered

NextOps ==
    \/ CallFileChange
    \/ CallUpload
    \/ UploadResponds
    \/ CallDownload
    \/ DownloadResponds
    \/ StreamConnects
    \/ StreamMessage
    \/ StreamError

SpecOps == Init /\ [][NextOps]_vars

----------------------------------------------------------------------------
(* The page as the user drives it, keeping the messages dispatched; the   *)
(* download button, which touches neither the logs nor the subscription,   *)
(* is left alone                                                           *)

ClickUploadAfresh ==
    /\ UploadButtonEnabled
    /\ Len(sources) + Len(uploads) < MaxSources
    /\ handleUpload
    /\ delivered' = <<>>

StreamMessageKept ==
    /\ Len(delivered) < MaxDelivered
    /\ \E i \in 1..Len(sources), data \in Payloads :
           /\ Trim(data) # <<>> => Len(logs) < MaxLogs
           /\ onmessage(i, data)
           /\ delivered' = Append(delivered, data)

NextStream ==
    \/ ChangeFile
    \/ ClickUploadAfresh
    \/ UploadResponds
    \/ StreamConnects
    \/ StreamMessageKept
    \/ StreamError

SpecStream == Init /\ [][NextStream]_vars

----------------------------------------------------------------------------
(* Properties *)

OpenSources == {i \in 1..Len(sources) : sources[i].readyState # CLOSED}

IsPdf(slot) == slot # NULL /\ FileType(slot) = "application/pdf"

\* the state other than the error message and the record of the last task
SessionButError ==
    <<answerScript, questionPaper, evaluationId, isLoading, uploadStatus,
      logs, isEvaluating, sources, eventSource, uploads, downloads, saved>>

\* C1: when onerror runs while the session is Evaluating and the transport
\* had left readyState other than CLOSED when it signalled the error, the
\* handler leaves the error message alone and the session is Completed.
C1_ErrorOnlyOnPermanentClose ==
    [][(last'.op = "onerror" /\ isEvaluating /\ last'.arg[2] # CLOSED)
        => /\ error' = error
           /\ ~isEvaluating'
           /\ uploadStatus' = CompletedStatus]_vars

\* C2: in every reachable state at most one EventSource is not closed.
C2_AtMostOneSubscription == Cardinality(OpenSources) <= 1

\* a second subscription is open after the cleanup closed the first
C2_Witness ==
    /\ Len(sources) = 2
    /\ sources[1].readyState = CLOSED
    /\ sources[2].readyState = OPEN
    /\ sources[2].job # sources[1].job

\* C3: an accepted handleUpload that finds a subscription open leaves every
\* EventSource closed (the new one is opened only by the response), and a
\* line is appended to the logs only by the subscription of the current
\* effect run, whose job is the evaluationId held.
C3_OldSubscriptionClosedFirst ==
    [][/\ (last'.op = "handleUpload" /\ last'.arg[1] /\ eventSource # 0)
           => \A i \in 1..Len(sources') : sources'[i].readyState = CLOSED
       /\ (last'.op = "onmessage" /\ logs' # logs)
           => /\ last'.arg[1] = eventSource
              /\ sources[last'.arg[1]].job = evaluationId
              /\ isEvaluating]_vars

\* handleUpload was accepted while subscription last.arg[2] was open, and
\* that subscription is closed
C3_Witness ==
    /\ last.op = "handleUpload"
    /\ last.arg[1]
    /\ last.arg[2] # 0
    /\ sources[last.arg[2]].readyState = CLOSED
    /\ sources[last.arg[2]].job = "abc123"

\* C4: a 2xx response whose JSON body carries evaluation_id = J leaves the
\* session Evaluating, not loading, with the in-progress status, J as
\* evaluationId, empty logs, and exactly one new EventSource, the only open
\* one, for job J.
C4_SuccessfulUploadStartsEvaluation ==
    [][(/\ last'.op = "uploadResponse"
        /\ ~last'.arg.rejected
        /\ Ok(last'.arg.status)
        /\ last'.arg.body.json
        /\ last'.arg.body.evaluation_id \in JobIds)
        => /\ isEvaluating'
           /\ ~isLoading'
           /\ uploadStatus' = InProgressStatus
           /\ evaluationId' = last'.arg.body.evaluation_id
           /\ logs' = <<>>
           /\ Len(sources') = Len(sources) + 1
           /\ \A i \in 1..Len(sources') :
                 sources'[i].readyState # CLOSED <=> i = Len(sources')
           /\ sources'[Len(sources')].job = last'.arg.body.evaluation_id
           /\ eventSource' = Len(sources')]_vars

C4_Witness ==
    /\ last.op = "uploadResponse"
    /\ last.arg.status = 201
    /\ isEvaluating
    /\ evaluationId = "xyz"
    /\ eventSource = 2
    /\ sources[2].job = "xyz"

\* C5: an upload request is issued only from a state where both slots hold
\* a PDF and the session is neither loading nor evaluating, and at most one
\* upload request is in flight.
C5_UploadOnlyWhenReady ==
    /\ [][Len(uploads') > Len(uploads)
          => /\ IsPdf(answerScript)
             /\ IsPdf(questionPaper)
             /\ ~isLoading
             /\ ~isEvaluating]_vars
    /\ [](Len(uploads) <= 1)

C5_Witness ==
    /\ Len(uploads) = 1
    /\ isLoading
    /\ last.op = "handleUpload"
    /\ Len(sources) = 1

\* C6: a download request is issued only from a state where an evaluation
\* id is held and the session is not evaluating.
C6_DownloadOnlyWhenCompleted ==
    [][Len(downloads') > Len(downloads)
       => Truthy(evaluationId) /\ ~isEvaluating]_vars

C6_Witness ==
    /\ last.op = "handleDownload"
    /\ Len(downloads) = 1
    /\ downloads[1] = evaluationId
    /\ ~isEvaluating

\* C7: an accepted handleUpload leaves no evaluation id held, and after a
\* failed upload the download button is not available.
C7_PreviousJobInvalidated ==
    [][/\ (last'.op = "handleUpload" /\ last'.arg[1])
           => ~Truthy(evaluationId')
       /\ (last'.op = "uploadResponse" /\ UploadThrows(last'.arg) # NULL)
           => ~DownloadButtonEnabled']_vars

\* C8: handleUpload called with an empty slot sets the error message and
\* changes nothing else; no request is issued.
C8_RejectedUploadOnlySetsError ==
    [][(last'.op = "handleUpload"
        /\ (answerScript = NULL \/ questionPaper = NULL))
        => /\ error' = BothFilesMessage
           /\ UNCHANGED SessionButError]_vars

C8_Witness ==
    /\ last.op = "handleUpload"
    /\ ~last.arg[1]
    /\ error = BothFilesMessage
    /\ answerScript # NULL
    /\ questionPaper = NULL

\* C9: selecting nothing, or a file whose type is not "application/pdf",
\* sets the validation message and changes nothing else.
C9_InvalidSelectionOnlySetsError ==
    [][(/\ last'.op = "handleFileChange"
        /\ \/ last'.arg[1] = UNDEFINED
           \/ FileType(last'.arg[1]) # "application/pdf")
        => /\ error' = InvalidFileMessage
           /\ UNCHANGED SessionButError]_vars

C9_Witness ==
    /\ last.op = "handleFileChange"
    /\ last.arg = <<"scan.PDF", "question">>
    /\ error = InvalidFileMessage
    /\ questionPaper = "paper.pdf"
    /\ answerScript = "script.pdf"

\* C10: selecting a file of type "application/pdf" for a slot stores it in
\* that slot, leaves the other slot alone and clears the error message; in
\* every reachable state a populated slot holds a PDF.
C10_ValidSelectionFillsItsSlot ==
    /\ [][(/\ last'.op = "handleFileChange"
           /\ last'.arg[1] # UNDEFINED
           /\ FileType(last'.arg[1]) = "application/pdf")
           => /\ error' = NULL
              /\ IF last'.arg[2] = "answer"
                 THEN /\ answerScript' = last'.arg[1]
                      /\ questionPaper' = questionPaper
                 ELSE /\ questionPaper' = last'.arg[1]
                      /\ answerScript' = answerScript]_vars
    /\ [](/\ answerScript # NULL => IsPdf(answerScript)
          /\ questionPaper # NULL => IsPdf(questionPaper))

C10_Witness ==
    /\ last.op = "handleFileChange"
    /\ last.arg = <<"paper.pdf", "answer">>
    /\ answerScript = "paper.pdf"
    /\ questionPaper = "script.pdf"
    /\ error = NULL

\* the last task was the continuation of handleUpload for a response that
\* arrived (fetch did not reject)
UploadAnswered(l) == l.op = "uploadResponse" /\ ~l.arg.rejected

\* C11: an upload response with status 502, whatever its body, sets the
\* error message to the "server unavailable" text, opens no subscription
\* and leaves the session not Evaluating.
C11_Upload502IsServerUnavailable ==
    [][(UploadAnswered(last') /\ last'.arg.status = 502)
        => /\ error' = ServerUnavailableMessage
           /\ sources' = sources
           /\ OpenSources' = {}
           /\ ~isEvaluating']_vars

C11_Witness ==
    /\ UploadAnswered(last)
    /\ last.arg.status = 502
    /\ ~last.arg.body.json
    /\ error = ServerUnavailableMessage
    /\ ~isEvaluating

\* C12: an upload response whose status is neither 2xx nor 502 sets the
\* error message to the body's message field when it carries one, and
\* otherwise to "Upload failed (Status: N)".
C12_UploadFailureMessage ==
    [][(UploadAnswered(last') /\ ~Ok(last'.arg.status)
        /\ last'.arg.status # 502)
        => error' = IF last'.arg.body.json /\ Truthy(last'.arg.body.message)
                    THEN last'.arg.body.message
                    ELSE "Upload failed (Status: "
                             \o ToString(last'.arg.status) \o ")"]_vars

\* the upload failed: fetch rejected, the status is not 2xx, or the body
\* could not be read as JSON
UploadFailed(l) ==
    /\ l.op = "uploadResponse"
    /\ \/ l.arg.rejected
       \/ ~Ok(l.arg.status)
       \/ ~l.arg.body.json

\* C13: after a failed upload the session is not loading, not evaluating,
\* has no open subscription, shows a non-empty error message, and the upload
\* button is enabled whenever both slots are populated.
C13_FailedUploadIsStable ==
    [][UploadFailed(last')
        => /\ ~isLoading'
           /\ ~isEvaluating'
           /\ OpenSources' = {}
           /\ Truthy(error')
           /\ (answerScript' # NULL /\ questionPaper' # NULL)
                  => UploadButtonEnabled']_vars

C13_Witness ==
    /\ UploadFailed(last)
    /\ last.arg.rejected
    /\ error = FetchFailedMessage
    /\ ~isLoading
    /\ UploadButtonEnabled
    /\ Len(sources) = 1

\* C15: when onerror runs, its subscription is closed, the session is no
\* longer Evaluating, the status is "Evaluation completed", the evaluation
\* id is kept and the download button is available, and the logs are
\* unchanged.
C15_StreamEndCompletes ==
    [][(last'.op = "onerror" /\ isEvaluating)
        => /\ sources'[last'.arg[1]].readyState = CLOSED
           /\ OpenSources' = {}
           /\ ~isEvaluating'
           /\ uploadStatus' = CompletedStatus
           /\ evaluationId' = evaluationId
           /\ DownloadButtonEnabled'
           /\ logs' = logs]_vars

C15_Witness ==
    /\ last.op = "onerror"
    /\ last.arg[2] = CONNECTING
    /\ Len(logs) = 2
    /\ uploadStatus = CompletedStatus
    /\ evaluationId = "abc123"
    /\ DownloadButtonEnabled

\* C16: handleDownload called while no evaluation id is held issues no
\* request and changes no state, the error message included.
C16_DownloadWithoutIdIsNoOp ==
    [][(last'.op = "handleDownload" /\ ~Truthy(evaluationId))
        => /\ UNCHANGED SessionButError
           /\ error' = error]_vars

C16_Witness ==
    /\ last.op = "handleDownload"
    /\ ~last.arg
    /\ evaluationId = NULL
    /\ error = InvalidFileMessage
    /\ downloads = <<>>

\* C17: a download response with a status that is not 2xx sets the error
\* message ("server unavailable" on 502, "Failed to download PDF (Status:
\* N)" otherwise) and changes nothing else: nothing is saved and no request
\* is issued.
C17_FailedDownloadOnlySetsError ==
    [][(last'.op = "downloadResponse" /\ ~last'.arg[2].rejected
        /\ ~Ok(last'.arg[2].status))
        => /\ error' = IF last'.arg[2].status = 502
                       THEN ServerUnavailableMessage
                       ELSE "Failed to download PDF (Status: "
                                \o ToString(last'.arg[2].status) \o ")"
           /\ UNCHANGED <<answerScript, questionPaper, evaluationId,
                          isLoading, uploadStatus, logs, isEvaluating,
                          sources, eventSource, uploads, saved>>
           /\ Len(downloads') = Len(downloads) - 1]_vars

C17_Witness ==
    /\ last.op = "downloadResponse"
    /\ last.arg[2].status = 502
    /\ error = ServerUnavailableMessage
    /\ saved = {}
    /\ uploadStatus = CompletedStatus

\* C18: from a state that is neither loading nor evaluating, any task other
\* than an accepted handleUpload leaves the session neither loading nor
\* evaluating and constructs no EventSource.
C18_OnlyUploadRestarts ==
    [][(~isLoading /\ ~isEvaluating
        /\ ~(last'.op = "handleUpload" /\ last'.arg[1]))
        => /\ ~isLoading'
           /\ ~isEvaluating'
           /\ Len(sources') = Len(sources)
           /\ OpenSources' = {}]_vars

\* a Completed session in which files were selected and a download answered
C18_Witness ==
    /\ last.op = "downloadResponse"
    /\ uploadStatus = CompletedStatus
    /\ answerScript = "paper.pdf"
    /\ ~isLoading
    /\ ~isEvaluating
    /\ Len(sources) = 1

\* the file name the claim gives for each job id
ExpectedFileName(id) ==
    CASE id = "abc123" -> "evaluated_script_abc123.pdf"
      [] id = "xyz"    -> "evaluated_script_xyz.pdf"

\* C19: handleDownload issues its request for the evaluation id held when
\* it is called, and a 2xx response to that request saves exactly
\* "evaluated_script_<id>.pdf", whatever evaluation id is held by then.
C19_FileNameFromRequestedJob ==
    [][/\ (last'.op = "handleDownload" /\ last'.arg)
           => downloads' = Append(downloads, evaluationId)
       /\ (last'.op = "downloadResponse" /\ ~last'.arg[2].rejected
           /\ Ok(last'.arg[2].status))
           => saved' = saved \cup {ExpectedFileName(last'.arg[1])}]_vars

\* the file of abc123 was saved while xyz was the id held
C19_Witness ==
    /\ last.op = "downloadResponse"
    /\ last.arg[1] = "abc123"
    /\ Ok(last.arg[2].status)
    /\ evaluationId = "xyz"
    /\ saved = {"evaluated_script_abc123.pdf"}

\* the EventSource a transport task was about
SourceOf(l) == IF l.op = "connected" THEN l.arg ELSE l.arg[1]

\* C20: onerror leaves its EventSource closed, a closed EventSource stays
\* closed, and no connection, message or error task ever runs for it again.
C20_ErrorHandledOncePerSubscription ==
    [][/\ last'.op = "onerror"
           => sources'[last'.arg[1]].readyState = CLOSED
       /\ \A i \in 1..Len(sources) :
             sources[i].readyState = CLOSED
                 => /\ sources'[i].readyState = CLOSED
                    /\ ~(/\ last'.op \in {"connected", "onmessage", "onerror"}
                         /\ SourceOf(last') = i)]_vars

\* the first subscription was closed by onerror and a second one delivers
C20_Witness ==
    /\ last.op = "onmessage"
    /\ last.arg[1] = 2
    /\ sources[1].readyState = CLOSED
    /\ error = NULL
    /\ Len(logs) = 1

\* a payload that is empty or made of white space only
IsBlank(data) == \A j \in 1..Len(data) : data[j] \in {SP, NL}

NotBlank(data) == ~IsBlank(data)

\* C14: the logs are the payloads dispatched since the upload that are not
\* blank, in the order of dispatch, each one unmodified.
C14_LogsAreNonBlankPayloads == logs = SelectSeq(delivered, NotBlank)

\* the payloads "  ", "l1", "\n", " l2\n" gave the two lines
C14_Witness ==
    /\ delivered = << <<SP, SP>>, <<"l", "1">>, <<NL>>,
                      <<SP, "l", "2", NL>> >>
    /\ logs = << <<"l", "1">>, <<SP, "l", "2", NL>> >>

\* s is an initial segment of t
IsPrefix(s, t) == Len(s) <= Len(t) /\ SubSeq(t, 1, Len(s)) = s

\* C21: an accepted handleUpload leaves the logs empty, and every other task
\* (a message, a stream error, a download, a file selection, a rejected
\* upload, a response) leaves the previous logs as a prefix of the new ones.
C21_LogsAppendOnly ==
    [][IF last'.op = "handleUpload" /\ last'.arg[1]
       THEN logs' = <<>>
       ELSE IsPrefix(logs, logs')]_vars

\* two lines are kept through the stream error and the download after it
C21_Witness ==
    /\ last.op = "downloadResponse"
    /\ Len(logs) = 2
    /\ logs[1] # logs[2]
    /\ ~isEvaluating

\* C22: when the logs are not empty an evaluation id is held and the session
\* is evaluating or has completed since the last accepted upload; the logs
\* are empty before the first upload and while an upload is in flight.
C22_LogsOnlyWithJob ==
    /\ logs # <<>>
           => /\ Truthy(evaluationId)
              /\ \/ isEvaluating
                 \/ uploadStatus = CompletedStatus /\ ~isLoading
    /\ (sources = <<>> /\ uploads = <<>> /\ evaluationId = NULL) => logs = <<>>
    /\ (isLoading \/ uploads # <<>>) => logs = <<>>

\* a completed evaluation of job xyz that keeps its two lines
C22_Witness ==
    /\ Len(logs) = 2
    /\ evaluationId = "xyz"
    /\ ~isEvaluating
    /\ uploadStatus = CompletedStatus
    /\ OpenSources = {}

\* C23: whenever isEvaluating is true, exactly one subscription is open, it
\* is the one of the current effect run and its job is the evaluation id
\* held.
C23_EvaluatingHasStream ==
    isEvaluating
        => /\ OpenSources = {eventSource}
           /\ eventSource # 0
           /\ sources[eventSource].job = evaluationId

\* C24: isLoading is true exactly while an upload request is in flight,
\* isLoading and isEvaluating are never both true, the status reads
\* "Uploading files..." while loading and "Evaluation in progress..." while
\* evaluating, it is empty right after a failed upload, and in every other
\* state it is empty or "Evaluation completed".
C24_PhaseFlagsConsistent ==
    /\ isLoading <=> uploads # <<>>
    /\ ~(isLoading /\ isEvaluating)
    /\ isLoading => uploadStatus = UploadingStatus
    /\ isEvaluating => uploadStatus = InProgressStatus
    /\ UploadFailed(last) => uploadStatus = ""
    /\ (~isLoading /\ ~isEvaluating)
           => uploadStatus \in {"", CompletedStatus}

\* the second upload of a session failed: the status of the completed first
\* evaluation is gone
C24_Witness ==
    /\ UploadFailed(last)
    /\ last.arg.status = 400
    /\ evaluationId = "abc123"
    /\ Len(sources) = 1
    /\ uploadStatus = ""
    /\ ~isLoading
    /\ ~isEvaluating

====
